---- MODULE Spec2Model ----
(***************************************************************************)
(* Model of the discovery-document diff engine of                          *)
(* google-api-go-generator/internal/disco/diff.go.                         *)
(*                                                                         *)
(* DiffDocs is a pure function of two documents and an option mask.  The   *)
(* state machine holds one caller: the inputs (old, new, options), the     *)
(* position of the caller (pc) and the returned entries; the text that     *)
(* renderDiff makes of the entries (rendered); the entries of a second     *)
(* call on the same inputs (again); the orders in which the runtime hands  *)
(* out the keys of a map to the first and to the second call (mapOrders);  *)
(* and, for a direct call of getFieldDiffs on the objects old and new, its *)
(* field names and its error result (fieldList, err).  Go's nil slice is   *)
(* the empty sequence: no path of diff.go builds an empty non-nil slice,   *)
(* so "diffs != nil" is "diffs # <<>>".                                    *)
(***************************************************************************)
EXTENDS Integers, Sequences, FiniteSets, TLC

VARIABLES old, new, options, entries, pc, rendered, again, mapOrders, fieldList, err

vars == <<old, new, options, entries, pc, rendered, again, mapOrders, fieldList, err>>

(***************************************************************************)
(* Bounds of the explored inputs.                                          *)
(***************************************************************************)
\* total number of resources (at every depth) of the old and new document together
MaxNodes == 4
\* total number of schema keys of the old and new document together
MaxSchemas == 3
\* number of top-level scalar fields in which the new document differs from the old one
MaxChanged == 3

(***************************************************************************)
(* Option mask (diff.go:17-52).                                            *)
(***************************************************************************)
VersioningOption == 1
DescriptionOption == 2
ServiceOption == 4
SchemaOption == 8
ResourceOption == 16
\* DiffOptions(^uint16(0))
AllOptions == 65535
\* DiffOptions is a uint16
MaskWidth == 16

RECURSIVE BitAnd(_, _, _)
\* a & b over w bits
BitAnd(a, b, w) ==
    IF w = 0 THEN 0
    ELSE ((a % 2) * (b % 2)) + 2 * BitAnd(a \div 2, b \div 2, w - 1)

RECURSIVE BitOr(_, _, _)
\* a | b over w bits
BitOr(a, b, w) ==
    IF w = 0 THEN 0
    ELSE (IF (a % 2) + (b % 2) > 0 THEN 1 ELSE 0) + 2 * BitOr(a \div 2, b \div 2, w - 1)

Set(mask, option) == BitOr(mask, option, MaskWidth)

\* mask &^ option
Clear(mask, option) == mask - BitAnd(mask, option, MaskWidth)

\* mutant of Has: the mask is compared with the option instead of probed for it
Has_Equal(mask, option) == mask = option

Has(mask, option) == BitAnd(mask, option, MaskWidth) # 0

(***************************************************************************)
(* Element kinds and change types (diff.go:31-75).                         *)
(***************************************************************************)
SchemaKind == "SCHEMA"
ResourceKind == "RESOURCE"
MethodKind == "METHOD"
StringFieldKind == "STRING_FIELD"
BoolFieldKind == "BOOL_FIELD"

AddChange == "ADD"
ModifyChange == "MODIFY"
DeleteChange == "DELETED"

\* &DiffEntry{...}: the fields a literal leaves out hold Go's zero values
DiffEntry(ct, kind, id, ov, nv, children) ==
    [ChangeType |-> ct, ElementKind |-> kind, ElementID |-> id,
     OldValue |-> ov, NewValue |-> nv, Children |-> children]

(***************************************************************************)
(* Strings.  Names are TLA+ strings; sort.Strings orders them by their     *)
(* bytes, which the table Bytes gives for every name the inputs use.       *)
(***************************************************************************)
\* the keys of the schema maps and the names of the resources of the inputs
SchemaKeys == {"B", "a", "ab"}
ResourceNames == {"", "B", "a"}

\* an order in which a map range hands out these keys
DefaultOrder == <<"ab", "", "a", "B">>

\* the order in which the running call gets the keys of a map it ranges over: Go leaves
\* the iteration order of a map open, and it differs between calls
CurrentOrder == mapOrders[IF pc = "start" THEN 1 ELSE 2]

\* for k := range keys { sortedKeys = append(sortedKeys, k) }
rangeKeys(keys) == SelectSeq(CurrentOrder, LAMBDA k : k \in keys)

Bytes(s) ==
    CASE s = "" -> <<>>
      [] s = "B" -> <<66>>
      [] s = "a" -> <<97>>
      [] s = "ab" -> <<97, 98>>

\* Go's string "<": bytewise lexicographic, a proper prefix first
StringLess(s, t) ==
    LET bs == Bytes(s)
        bt == Bytes(t)
    IN \E i \in 1..(Len(bt)) :
          /\ i <= Len(bs) + 1
          /\ \A j \in 1..(i - 1) : bs[j] = bt[j]
          /\ (i = Len(bs) + 1 \/ bs[i] < bt[i])

RECURSIVE SortStrings_Descending(_)
\* mutant of SortStrings: the comparison of the sort is reversed
SortStrings_Descending(S) ==
    IF S = {} THEN <<>>
    ELSE LET m == CHOOSE x \in S : \A y \in S : x = y \/ StringLess(y, x)
         IN <<m>> \o SortStrings_Descending(S \ {m})

\* mutant of sortStrings: the slice is left in the order the map range filled it in
sortStrings_None(sortedKeys) == sortedKeys

\* sort.Strings(sortedKeys): every key is put behind the keys that are not greater
sortStrings(sortedKeys) ==
    LET insert(sorted, x) ==
            SelectSeq(sorted, LAMBDA y : ~StringLess(x, y))
            \o <<x>>
            \o SelectSeq(sorted, LAMBDA y : StringLess(x, y))
        sorted[i \in 0..Len(sortedKeys)] ==
            IF i = 0 THEN <<>> ELSE insert(sorted[i - 1], sortedKeys[i])
    IN sorted[Len(sortedKeys)]

\* the keys of the set, collected in a slice and passed to sort.Strings
SortStrings(S) == sortStrings(rangeKeys(S))

\* fmt.Sprintf("%t", b)
FormatBool(b) == IF b THEN "true" ELSE "false"

(***************************************************************************)
(* Field comparison.                                                       *)
(***************************************************************************)
diffString(id, o, n) ==
    IF o # n THEN <<DiffEntry(ModifyChange, StringFieldKind, id, o, n, <<>>)>>
    ELSE <<>>

diffBool(id, o, n) ==
    IF o # n
    THEN <<DiffEntry(ModifyChange, BoolFieldKind, id, FormatBool(o), FormatBool(n), <<>>)>>
    ELSE <<>>

\* reflect.Kind of the named field of Document, Schema, Resource and Method
FieldKind(fn) ==
    IF fn \in {"ID", "Name", "Revision", "Title", "RootURL", "ServicePath", "BasePath",
               "DocumentationLink", "Type", "Format", "Description", "Ref", "Default",
               "Pattern", "Path", "HTTPMethod"}
    THEN "string"
    ELSE IF fn = "SupportsMediaDownload" THEN "bool"
    ELSE "other"

\* a nil pointer: reflect.ValueOf(x).Elem() of it is the invalid Value
NilRef == [valid |-> FALSE]

\* vOld.IsValid()
IsValid(x) == x # NilRef

\* vOld.Type(): a struct type, told from the others by its fields
TypeOf(x) == DOMAIN x

\* mutant of getFieldDiffs: the old and the new value change places in the entry
getFieldDiffs_Swapped(o, n, fieldNames, checkDescriptions) ==
    LET bad(fn) == \/ fn \notin DOMAIN o
                   \/ fn \notin DOMAIN n
                   \/ FieldKind(fn) = "other"
        one(fn) ==
            IF FieldKind(fn) = "string"
            THEN IF (checkDescriptions \/ fn # "Description") /\ o[fn] # n[fn]
                 THEN <<DiffEntry(ModifyChange, StringFieldKind, fn, n[fn], o[fn], <<>>)>>
                 ELSE <<>>
            ELSE IF o[fn] # n[fn]
                 THEN <<DiffEntry(ModifyChange, BoolFieldKind, fn,
                                  FormatBool(n[fn]), FormatBool(o[fn]), <<>>)>>
                 ELSE <<>>
        partialDiffs[i \in 0..Len(fieldNames)] ==
            IF i = 0 THEN [diffs |-> <<>>, err |-> FALSE]
            ELSE LET before == partialDiffs[i - 1]
                 IN IF before.err THEN before
                    ELSE IF bad(fieldNames[i]) THEN [diffs |-> <<>>, err |-> TRUE]
                    ELSE [diffs |-> before.diffs \o one(fieldNames[i]), err |-> FALSE]
    IN IF ~IsValid(o) \/ ~IsValid(n) THEN [diffs |-> <<>>, err |-> TRUE]
       ELSE IF TypeOf(o) # TypeOf(n) THEN [diffs |-> <<>>, err |-> TRUE]
       ELSE partialDiffs[Len(fieldNames)]

\* mutant of getFieldDiffs: a field that cannot be compared ends the loop with the error
\* and the entries collected so far
getFieldDiffs_PartialOnError(o, n, fieldNames, checkDescriptions) ==
    LET bad(fn) == \/ fn \notin DOMAIN o
                   \/ fn \notin DOMAIN n
                   \/ FieldKind(fn) = "other"
        one(fn) ==
            IF FieldKind(fn) = "string"
            THEN IF (checkDescriptions \/ fn # "Description") /\ o[fn] # n[fn]
                 THEN <<DiffEntry(ModifyChange, StringFieldKind, fn, o[fn], n[fn], <<>>)>>
                 ELSE <<>>
            ELSE IF o[fn] # n[fn]
                 THEN <<DiffEntry(ModifyChange, BoolFieldKind, fn,
                                  FormatBool(o[fn]), FormatBool(n[fn]), <<>>)>>
                 ELSE <<>>
        partialDiffs[i \in 0..Len(fieldNames)] ==
            IF i = 0 THEN [diffs |-> <<>>, err |-> FALSE]
            ELSE LET before == partialDiffs[i - 1]
                 IN IF before.err THEN before
                    ELSE IF bad(fieldNames[i]) THEN [diffs |-> before.diffs, err |-> TRUE]
                    ELSE [diffs |-> before.diffs \o one(fieldNames[i]), err |-> FALSE]
    IN IF ~IsValid(o) \/ ~IsValid(n) THEN [diffs |-> <<>>, err |-> TRUE]
       ELSE IF TypeOf(o) # TypeOf(n) THEN [diffs |-> <<>>, err |-> TRUE]
       ELSE partialDiffs[Len(fieldNames)]

\* getFieldDiffs: [diffs, err]; err is TRUE when the Go function returns (nil, error)
getFieldDiffs(o, n, fieldNames, checkDescriptions) ==
    LET bad(fn) == \/ fn \notin DOMAIN o
                   \/ fn \notin DOMAIN n
                   \/ FieldKind(fn) = "other"
        one(fn) ==
            IF FieldKind(fn) = "string"
            THEN IF (checkDescriptions \/ fn # "Description") /\ o[fn] # n[fn]
                 THEN <<DiffEntry(ModifyChange, StringFieldKind, fn, o[fn], n[fn], <<>>)>>
                 ELSE <<>>
            ELSE IF o[fn] # n[fn]
                 THEN <<DiffEntry(ModifyChange, BoolFieldKind, fn,
                                  FormatBool(o[fn]), FormatBool(n[fn]), <<>>)>>
                 ELSE <<>>
        partialDiffs[i \in 0..Len(fieldNames)] ==
            IF i = 0 THEN [diffs |-> <<>>, err |-> FALSE]
            ELSE LET before == partialDiffs[i - 1]
                 IN IF before.err THEN before
                    ELSE IF bad(fieldNames[i]) THEN [diffs |-> <<>>, err |-> TRUE]
                    ELSE [diffs |-> before.diffs \o one(fieldNames[i]), err |-> FALSE]
    IN IF ~IsValid(o) \/ ~IsValid(n) THEN [diffs |-> <<>>, err |-> TRUE]
       ELSE IF TypeOf(o) # TypeOf(n) THEN [diffs |-> <<>>, err |-> TRUE]
       ELSE partialDiffs[Len(fieldNames)]

(***************************************************************************)
(* Element comparators.                                                    *)
(***************************************************************************)
IdentifierFields == <<"ID", "Name">>
VersioningFields == <<"Revision">>
ServiceFields == <<"Title", "RootURL", "ServicePath", "BasePath", "DocumentationLink">>
SchemaFields == <<"ID", "Type", "Format", "Description", "Ref", "Default", "Pattern", "Name">>
MethodFields == <<"Name", "ID", "Path", "HTTPMethod", "Description", "SupportsMediaDownload">>

compareIdentifiers(o, n) == getFieldDiffs(o, n, IdentifierFields, FALSE).diffs

compareVersioning(o, n) == getFieldDiffs(o, n, VersioningFields, FALSE).diffs

compareServiceOptions(o, n) == getFieldDiffs(o, n, ServiceFields, FALSE).diffs

\* the checkDescriptions parameter is not passed on: getFieldDiffs gets false
compareSingleSchema(o, n, checkDescriptions) ==
    getFieldDiffs(o, n, SchemaFields, FALSE).diffs

\* &Schema{}
ZeroSchema ==
    [ID |-> "", Type |-> "", Format |-> "", Description |-> "", Ref |-> "",
     Default |-> "", Pattern |-> "", Name |-> ""]

\* the children of an added schema: each field diff gets ChangeType Add
amendSchemaFields(fieldDiffs) ==
    [i \in 1..Len(fieldDiffs) |-> [fieldDiffs[i] EXCEPT !.ChangeType = AddChange]]

\* mutant of compareSchemaKey: a deleted schema is compared against the zero schema
\* and carries the field diffs as children
compareSchemaKey_DeleteWithChildren(oldSchemas, newSchemas, keyName, checkDescriptions) ==
    LET id == "Schemas." \o keyName
    IN IF keyName \notin DOMAIN oldSchemas
       THEN IF keyName \in DOMAIN newSchemas
            THEN LET fieldDiffs == compareSingleSchema(ZeroSchema, newSchemas[keyName],
                                                       checkDescriptions)
                 IN IF fieldDiffs # <<>>
                    THEN <<DiffEntry(AddChange, SchemaKind, id, "", "",
                                     amendSchemaFields(fieldDiffs))>>
                    ELSE <<>>
            ELSE <<>>
       ELSE IF keyName \in DOMAIN newSchemas
            THEN LET fieldDiffs == compareSingleSchema(oldSchemas[keyName],
                                                       newSchemas[keyName],
                                                       checkDescriptions)
                 IN IF fieldDiffs # <<>>
                    THEN <<DiffEntry(ModifyChange, SchemaKind, id, "", "", fieldDiffs)>>
                    ELSE <<>>
            ELSE <<DiffEntry(DeleteChange, SchemaKind, id, "", "",
                             compareSingleSchema(oldSchemas[keyName], ZeroSchema,
                                                 checkDescriptions))>>

\* the loop body of compareSchemas for one key: the entries it appends
compareSchemaKey(oldSchemas, newSchemas, keyName, checkDescriptions) ==
    LET id == "Schemas." \o keyName
    IN IF keyName \notin DOMAIN oldSchemas
       THEN IF keyName \in DOMAIN newSchemas
            THEN LET fieldDiffs == compareSingleSchema(ZeroSchema, newSchemas[keyName],
                                                       checkDescriptions)
                 IN IF fieldDiffs # <<>>
                    THEN <<DiffEntry(AddChange, SchemaKind, id, "", "",
                                     amendSchemaFields(fieldDiffs))>>
                    ELSE <<>>
            ELSE <<>>
       ELSE IF keyName \in DOMAIN newSchemas
            THEN LET fieldDiffs == compareSingleSchema(oldSchemas[keyName],
                                                       newSchemas[keyName],
                                                       checkDescriptions)
                 IN IF fieldDiffs # <<>>
                    THEN <<DiffEntry(ModifyChange, SchemaKind, id, "", "", fieldDiffs)>>
                    ELSE <<>>
            ELSE <<DiffEntry(DeleteChange, SchemaKind, id, "", "", <<>>)>>

\* the keys of both schema maps, sorted
schemaSortedKeys(oldSchemas, newSchemas) ==
    SortStrings(DOMAIN oldSchemas \cup DOMAIN newSchemas)

compareSchemas(o, n, checkDescriptions) ==
    LET sortedKeys == schemaSortedKeys(o.Schemas, n.Schemas)
        partialDiffs[i \in 0..Len(sortedKeys)] ==
            IF i = 0 THEN <<>>
            ELSE partialDiffs[i - 1]
                 \o compareSchemaKey(o.Schemas, n.Schemas, sortedKeys[i], checkDescriptions)
    IN partialDiffs[Len(sortedKeys)]

compareMethods(o, n, checkDescriptions) == <<>>

\* never called: compareMethods returns before reconciling anything
compareSingleMethod(o, n, checkDescriptions) ==
    getFieldDiffs(o, n, MethodFields, FALSE).diffs

\* &Resource{}
ZeroResource == [Name |-> "", Resources |-> <<>>, Methods |-> <<>>]

\* mutant of resourceMap: the first element of a name is kept, a later one ignored
resourceMap_First(list) ==
    [k \in {list[i].Name : i \in 1..Len(list)} |->
        list[CHOOSE i \in 1..Len(list) :
                /\ list[i].Name = k
                /\ \A j \in 1..(i - 1) : list[j].Name # k]]

\* oldMap / newMap: a later element of the list replaces an earlier one of its name
resourceMap(list) ==
    [k \in {list[i].Name : i \in 1..Len(list)} |->
        list[CHOOSE i \in 1..Len(list) :
                /\ list[i].Name = k
                /\ \A j \in (i + 1)..Len(list) : list[j].Name # k]]

\* the keys of both resource lists, sorted
resourceSortedKeys(oldList, newList) ==
    SortStrings(DOMAIN resourceMap(oldList) \cup DOMAIN resourceMap(newList))

\* mutant of amendChangeType: the entries are left as the comparison built them
amendChangeType_None(es, newType) == es

RECURSIVE amendChangeType(_, _)
amendChangeType(es, newType) ==
    [i \in 1..Len(es) |->
        [es[i] EXCEPT !.ChangeType = newType,
                      !.Children = IF es[i].Children # <<>>
                                   THEN amendChangeType(es[i].Children, newType)
                                   ELSE <<>>]]

\* mutant of resourceElementID: the prefix of the schema entries, copied with the loop
resourceElementID_SchemaPrefix(keyName) == "Schemas." \o keyName

\* fmt.Sprintf("Resources.%s", keyName)
resourceElementID(keyName) == "Resources." \o keyName

RECURSIVE compareResources(_, _, _)
RECURSIVE compareSingleResource(_, _, _)
RECURSIVE compareResourceKey(_, _, _, _)

\* mutant of compareResourceKey: a resource of both lists gets a Modify entry also
\* when its comparison found nothing
compareResourceKey_NoEmptyCheck(oldMap, newMap, keyName, checkDescriptions) ==
    LET id == resourceElementID(keyName)
    IN IF keyName \notin DOMAIN oldMap
       THEN IF keyName \in DOMAIN newMap
            THEN LET fieldDiffs == compareSingleResource(ZeroResource, newMap[keyName],
                                                         checkDescriptions)
                 IN IF fieldDiffs # <<>>
                    THEN <<DiffEntry(AddChange, ResourceKind, id, "", "",
                                     amendChangeType(fieldDiffs, AddChange))>>
                    ELSE <<>>
            ELSE <<>>
       ELSE IF keyName \in DOMAIN newMap
            THEN <<DiffEntry(ModifyChange, ResourceKind, id, "", "",
                             compareSingleResource(oldMap[keyName], newMap[keyName],
                                                   checkDescriptions))>>
            ELSE <<DiffEntry(DeleteChange, ResourceKind, id, "", "", <<>>)>>

\* mutant of compareResourceKey: the entry of an added resource carries the name of
\* the resource as its new value
compareResourceKey_AddWithValue(oldMap, newMap, keyName, checkDescriptions) ==
    LET id == resourceElementID(keyName)
    IN IF keyName \notin DOMAIN oldMap
       THEN IF keyName \in DOMAIN newMap
            THEN LET fieldDiffs == compareSingleResource(ZeroResource, newMap[keyName],
                                                         checkDescriptions)
                 IN IF fieldDiffs # <<>>
                    THEN <<DiffEntry(AddChange, ResourceKind, id, "", keyName,
                                     amendChangeType(fieldDiffs, AddChange))>>
                    ELSE <<>>
            ELSE <<>>
       ELSE IF keyName \in DOMAIN newMap
            THEN LET fieldDiffs == compareSingleResource(oldMap[keyName], newMap[keyName],
                                                         checkDescriptions)
                 IN IF fieldDiffs # <<>>
                    THEN <<DiffEntry(ModifyChange, ResourceKind, id, "", "", fieldDiffs)>>
                    ELSE <<>>
            ELSE <<DiffEntry(DeleteChange, ResourceKind, id, "", "", <<>>)>>

\* the loop body of compareResources for one key: the entries it appends
compareResourceKey(oldMap, newMap, keyName, checkDescriptions) ==
    LET id == resourceElementID(keyName)
    IN IF keyName \notin DOMAIN oldMap
       THEN IF keyName \in DOMAIN newMap
            THEN LET fieldDiffs == compareSingleResource(ZeroResource, newMap[keyName],
                                                         checkDescriptions)
                 IN IF fieldDiffs # <<>>
                    THEN <<DiffEntry(AddChange, ResourceKind, id, "", "",
                                     amendChangeType(fieldDiffs, AddChange))>>
                    ELSE <<>>
            ELSE <<>>
       ELSE IF keyName \in DOMAIN newMap
            THEN LET fieldDiffs == compareSingleResource(oldMap[keyName], newMap[keyName],
                                                         checkDescriptions)
                 IN IF fieldDiffs # <<>>
                    THEN <<DiffEntry(ModifyChange, ResourceKind, id, "", "", fieldDiffs)>>
                    ELSE <<>>
            ELSE <<DiffEntry(DeleteChange, ResourceKind, id, "", "", <<>>)>>

compareResources(oldList, newList, checkDescriptions) ==
    LET oldMap == resourceMap(oldList)
        newMap == resourceMap(newList)
        sortedKeys == resourceSortedKeys(oldList, newList)
        partialDiffs[i \in 0..Len(sortedKeys)] ==
            IF i = 0 THEN <<>>
            ELSE partialDiffs[i - 1]
                 \o compareResourceKey(oldMap, newMap, sortedKeys[i], checkDescriptions)
    IN partialDiffs[Len(sortedKeys)]

compareSingleResource(o, n, checkDescriptions) ==
    diffString("Name", o.Name, n.Name)
    \o compareResources(o.Resources, n.Resources, checkDescriptions)
    \o compareMethods(o.Methods, n.Methods, checkDescriptions)

(***************************************************************************)
(* DiffDocs: the categories in their fixed order.                          *)
(***************************************************************************)
identifierPart(o, n, opts) == compareIdentifiers(o, n)

versioningPart(o, n, opts) ==
    IF Has(opts, VersioningOption) THEN compareVersioning(o, n) ELSE <<>>

servicePart(o, n, opts) ==
    IF Has(opts, ServiceOption) THEN compareServiceOptions(o, n) ELSE <<>>

schemaPart(o, n, opts) ==
    IF Has(opts, SchemaOption)
    THEN compareSchemas(o, n, Has(opts, DescriptionOption))
    ELSE <<>>

resourcePart(o, n, opts) ==
    IF Has(opts, ResourceOption)
    THEN compareResources(o.Resources, n.Resources, Has(opts, DescriptionOption))
    ELSE <<>>

\* log.Fatalf of a comparator: getFieldDiffs returned an error for its objects and fields
fatal(o, n, fieldNames) == getFieldDiffs(o, n, fieldNames, FALSE).err

\* log.Fatalf of compareSingleSchema for a key that compareSchemas compares
schemasFatal(o, n) ==
    \E k \in DOMAIN n.Schemas :
       fatal(IF k \in DOMAIN o.Schemas THEN o.Schemas[k] ELSE ZeroSchema, n.Schemas[k],
             SchemaFields)

\* the call ends the process in a log.Fatalf instead of returning; compareSingleResource
\* and compareMethods call no getFieldDiffs
DiffDocsFatal(o, n, opts) ==
    \/ fatal(o, n, IdentifierFields)
    \/ Has(opts, VersioningOption) /\ fatal(o, n, VersioningFields)
    \/ Has(opts, ServiceOption) /\ fatal(o, n, ServiceFields)
    \/ Has(opts, SchemaOption) /\ schemasFatal(o, n)

\* mutant of DiffDocs: the resources are compared before the schemas
DiffDocs_ResourcesFirst(o, n, opts) ==
    identifierPart(o, n, opts)
    \o versioningPart(o, n, opts)
    \o servicePart(o, n, opts)
    \o resourcePart(o, n, opts)
    \o schemaPart(o, n, opts)

DiffDocs(o, n, opts) ==
    identifierPart(o, n, opts)
    \o versioningPart(o, n, opts)
    \o servicePart(o, n, opts)
    \o schemaPart(o, n, opts)
    \o resourcePart(o, n, opts)

(***************************************************************************)
(* Rendering (diff.go:325-388).  The text is a TLA+ string.                *)
(***************************************************************************)
RECURSIVE Repeat(_, _)
\* strings.Repeat(s, count)
Repeat(s, count) == IF count <= 0 THEN "" ELSE s \o Repeat(s, count - 1)

renderChangeType(t) ==
    CASE t = AddChange -> "+"
      [] t = ModifyChange -> "M"
      [] t = DeleteChange -> "-"
      [] OTHER -> "?"

renderElementKind(e) ==
    CASE e = SchemaKind -> "<Schema> "
      [] e = MethodKind -> "<Method> "
      [] e = ResourceKind -> "<Resource> "
      [] e = StringFieldKind -> "."
      [] e = BoolFieldKind -> "."
      [] OTHER -> "???"

\* mutant of canRenderDelta: every kind of entry renders its values
canRenderDelta_Always(e) == TRUE

canRenderDelta(e) == e = StringFieldKind \/ e = BoolFieldKind

RECURSIVE renderDiffInternal(_, _)
\* buf after the loop over the entries; the entries of a result are never nil
renderDiffInternal(es, level) ==
    LET one(e) ==
            Repeat(" ", level * 2)
            \o renderChangeType(e.ChangeType) \o " "
            \o renderElementKind(e.ElementKind) \o e.ElementID
            \o (IF e.ChangeType = ModifyChange /\ canRenderDelta(e.ElementKind)
                THEN " [ \"" \o e.OldValue \o "\" ==> \"" \o e.NewValue \o "\" ]"
                ELSE "")
            \o (IF e.ChangeType = AddChange /\ e.NewValue # ""
                THEN " [ \"" \o e.NewValue \o "\" ]"
                ELSE "")
            \o "\n"
            \o (IF e.Children # <<>> THEN renderDiffInternal(e.Children, level + 1)
                ELSE "")
        buf[i \in 0..Len(es)] == IF i = 0 THEN "" ELSE buf[i - 1] \o one(es[i])
    IN IF es = <<>> THEN "" ELSE buf[Len(es)]

renderDiff(es) == renderDiffInternal(es, 0)

(***************************************************************************)
(* Inputs.  Documents are records of the fields diff.go reads.             *)
(***************************************************************************)
TopFields ==
    {"ID", "Name", "Revision", "Title", "RootURL", "ServicePath", "BasePath",
     "DocumentationLink"}

BaseValue(fn) ==
    CASE fn = "ID" -> "storage:v1"
      [] fn = "Name" -> "storage"
      [] fn = "Revision" -> "20161109"
      [] fn = "Title" -> "Cloud Storage JSON API"
      [] fn = "RootURL" -> "https://www.googleapis.com/"
      [] fn = "ServicePath" -> "storage/v1/"
      [] fn = "BasePath" -> "/storage/v1/"
      [] fn = "DocumentationLink" -> "https://developers.google.com/storage/docs/json_api/"

ChangedValue(fn) ==
    CASE fn = "ID" -> "storage:v2"
      [] fn = "Name" -> "storage2"
      [] fn = "Revision" -> "20191101"
      [] fn = "Title" -> "Cloud StOrAGe JSON API"
      [] fn = "RootURL" -> "https://storage.googleapis.com/"
      [] fn = "ServicePath" -> "storage/v2/"
      [] fn = "BasePath" -> "/storage/v2/"
      [] fn = "DocumentationLink" -> ""

\* a document whose scalar fields in D are changed, with the given schemas and resources
MakeDoc(D, schemas, resources) ==
    [ID |-> IF "ID" \in D THEN ChangedValue("ID") ELSE BaseValue("ID"),
     Name |-> IF "Name" \in D THEN ChangedValue("Name") ELSE BaseValue("Name"),
     Revision |-> IF "Revision" \in D THEN ChangedValue("Revision")
                  ELSE BaseValue("Revision"),
     Title |-> IF "Title" \in D THEN ChangedValue("Title") ELSE BaseValue("Title"),
     RootURL |-> IF "RootURL" \in D THEN ChangedValue("RootURL") ELSE BaseValue("RootURL"),
     ServicePath |-> IF "ServicePath" \in D THEN ChangedValue("ServicePath")
                     ELSE BaseValue("ServicePath"),
     BasePath |-> IF "BasePath" \in D THEN ChangedValue("BasePath")
                  ELSE BaseValue("BasePath"),
     DocumentationLink |-> IF "DocumentationLink" \in D
                           THEN ChangedValue("DocumentationLink")
                           ELSE BaseValue("DocumentationLink"),
     Schemas |-> schemas,
     Resources |-> resources]

\* the empty map / a nil map of schemas
NoSchemas == [k \in {} |-> ZeroSchema]

Shovel == [ZeroSchema EXCEPT !.ID = "Shovel", !.Type = "object", !.Name = "Shovel"]

SchemaValues ==
    {ZeroSchema,
     Shovel,
     [Shovel EXCEPT !.Description = "a shovel"],
     [Shovel EXCEPT !.Description = "a spade", !.Format = "int32"],
     [ZeroSchema EXCEPT !.Description = "only described"]}

\* the schema maps with exactly n keys
SchemaMaps(n) ==
    UNION {[K -> SchemaValues] : K \in {K \in SUBSET SchemaKeys : Cardinality(K) = n}}

SchemaMapPairs ==
    UNION {SchemaMaps(i) \X SchemaMaps(j) :
             <<i, j>> \in {p \in (0..MaxSchemas) \X (0..MaxSchemas) :
                             p[1] + p[2] <= MaxSchemas}}

Resource(name, resources, methods) ==
    [Name |-> name, Resources |-> resources, Methods |-> methods]

\* the resource lists holding exactly n resources, nested ones counted, without methods
Forests[n \in 0..MaxNodes] ==
    IF n = 0 THEN {<<>>}
    ELSE UNION {{<<Resource(nm, c, <<>>)>> \o r : nm \in ResourceNames, c \in Forests[k],
                                                  r \in Forests[n - 1 - k]} :
                  k \in 0..(n - 1)}

\* the pairs of resource lists holding at most n resources together
ForestPairsUpTo(n) ==
    UNION {Forests[p[1]] \X Forests[p[2]] :
             p \in {q \in (0..n) \X (0..n) : q[1] + q[2] <= n}}

ForestPairs == ForestPairsUpTo(MaxNodes)

\* a smaller pair of lists nested in a resource "a" of both documents, next to a
\* resource "B" that does not change; the two lists are in different orders
WrappedPairs ==
    {<<<<Resource("a", p[1], <<>>), Resource("B", <<>>, <<>>)>>,
       <<Resource("B", <<>>, <<>>), Resource("a", p[2], <<>>)>>>> :
        p \in ForestPairsUpTo(MaxNodes - 1)}

Method(name, id, path, verb, description, download) ==
    [Name |-> name, ID |-> id, Path |-> path, HTTPMethod |-> verb,
     Description |-> description, SupportsMediaDownload |-> download]

MethodValues ==
    {Method("get", "storage.buckets.get", "b/{bucket}", "GET", "Returns a bucket.", FALSE),
     Method("get", "storage.buckets.get", "b/{bucket}", "GET", "Returns a bucket.", TRUE),
     Method("get", "storage.buckets.get", "b/{bucket}", "POST", "Gets a bucket.", FALSE),
     Method("list", "storage.buckets.list", "b", "GET", "Lists buckets.", FALSE)}

MethodLists ==
    {<<>>} \cup {<<m>> : m \in MethodValues}
           \cup {<<m1, m2>> : m1 \in MethodValues, m2 \in MethodValues}

\* one resource "a" on each side, differing at most in its methods
MethodPairs ==
    {<<<<Resource("a", <<>>, om)>>, <<Resource("a", <<>>, nm)>>>> :
        om \in MethodLists, nm \in MethodLists}

\* the sets of top-level fields in which the new document differs from the old one
ChangedSets == {D \in SUBSET TopFields : Cardinality(D) <= MaxChanged}

\* schemas and resources of the documents whose top-level fields vary
SmallSchemas == [a |-> Shovel]
SmallSchemasChanged == [a |-> [Shovel EXCEPT !.Format = "int32"], B |-> Shovel]
SmallResources == <<Resource("a", <<>>, <<>>)>>
SmallResourcesChanged == <<Resource("B", <<Resource("a", <<>>, <<>>)>>, <<>>)>>

\* <<old schemas, new schemas, old resources, new resources>>
SmallPairs ==
    {<<SmallSchemas, SmallSchemas, SmallResources, SmallResources>>,
     <<SmallSchemas, SmallSchemasChanged, SmallResources, SmallResources>>,
     <<SmallSchemas, SmallSchemas, SmallResources, SmallResourcesChanged>>,
     <<SmallSchemas, SmallSchemasChanged, SmallResources, SmallResourcesChanged>>,
     <<SmallSchemasChanged, SmallSchemasChanged, SmallResourcesChanged,
       SmallResourcesChanged>>}

\* the documents passed to DiffDocs where a reference may be nil
DocumentRefs ==
    {NilRef,
     MakeDoc({}, SmallSchemas, SmallResources),
     MakeDoc({"ID", "Revision", "Title"}, SmallSchemasChanged, SmallResourcesChanged)}

\* the objects passed to getFieldDiffs: nil, documents, schemas and methods
FieldObjects ==
    DocumentRefs
    \cup {Shovel, [Shovel EXCEPT !.ID = "Spade", !.Description = "a spade"]}
    \cup {Method("get", "storage.buckets.get", "b/{bucket}", "GET", "Returns a bucket.",
                 FALSE),
          Method("list", "storage.buckets.get", "b", "GET", "Lists buckets.", TRUE)}

\* the field names passed to getFieldDiffs: the lists of the comparators, and lists
\* naming a field no object has or a field that is a map or a slice
FieldLists ==
    {IdentifierFields, VersioningFields, ServiceFields, SchemaFields, MethodFields,
     <<>>,
     <<"ID", "NoSuchField", "Name">>,
     <<"ID", "Name", "Resources">>,
     <<"Schemas", "ID">>}

\* every order of the keys
MapOrders ==
    {[i \in 1..Len(DefaultOrder) |-> f[DefaultOrder[i]]] :
        f \in Permutations({DefaultOrder[i] : i \in 1..Len(DefaultOrder)})}

\* schema maps of every set of keys: the old schemas are shovels, the new ones differ
KeySetPairs ==
    {<<[k \in K1 |-> Shovel], [k \in K2 |-> [Shovel EXCEPT !.Format = "int32"]]>> :
        K1 \in SUBSET SchemaKeys, K2 \in SUBSET SchemaKeys}

\* every subset of the five defined flags, and the all-flags value
DocMasks == (0..31) \cup {AllOptions}
SchemaMasks == {SchemaOption, SchemaOption + DescriptionOption, AllOptions}
ResourceMasks == {ResourceOption}

(***************************************************************************)
(* The state machine: one call of DiffDocs.                                *)
(***************************************************************************)
InitCall ==
    /\ entries = <<>>
    /\ pc = "start"
    /\ rendered = ""
    /\ again = <<>>
    /\ mapOrders = <<DefaultOrder, DefaultOrder>>
    /\ fieldList = <<>>
    /\ err = FALSE

\* documents that differ in their top-level fields
InitDocs ==
    /\ \E D \in ChangedSets, q \in SmallPairs :
          /\ old = MakeDoc({}, q[1], q[3])
          /\ new = MakeDoc(D, q[2], q[4])
    /\ options \in DocMasks
    /\ InitCall

\* documents that differ in their schemas
InitSchemas ==
    /\ \E p \in SchemaMapPairs :
          /\ old = MakeDoc({}, p[1], <<>>)
          /\ new = MakeDoc({}, p[2], <<>>)
    /\ options \in SchemaMasks
    /\ InitCall

\* documents that differ in their resources
InitResources ==
    /\ \E p \in ForestPairs \cup WrappedPairs \cup MethodPairs :
          /\ old = MakeDoc({}, NoSchemas, p[1])
          /\ new = MakeDoc({}, NoSchemas, p[2])
    /\ options \in ResourceMasks
    /\ InitCall

\* documents that differ in the keys of their schemas or in their resources, and every
\* order of the keys for the first call with the opposite order for the second
InitTwice ==
    /\ \/ \E p \in KeySetPairs :
             /\ old = MakeDoc({}, p[1], <<>>)
             /\ new = MakeDoc({}, p[2], <<>>)
       \/ \E p \in ForestPairsUpTo(MaxNodes - 2) :
             /\ old = MakeDoc({}, NoSchemas, p[1])
             /\ new = MakeDoc({}, NoSchemas, p[2])
    /\ options = AllOptions
    /\ mapOrders \in {<<o, [i \in 1..Len(o) |-> o[Len(o) + 1 - i]]>> : o \in MapOrders}
    /\ entries = <<>>
    /\ pc = "start"
    /\ rendered = ""
    /\ again = <<>>
    /\ fieldList = <<>>
    /\ err = FALSE

\* objects and field names for getFieldDiffs, the nil pointer, objects of different
\* types and names of missing and of non-scalar fields among them
InitFields ==
    /\ old \in FieldObjects
    /\ new \in FieldObjects
    /\ fieldList \in FieldLists
    /\ options \in {0, DescriptionOption}
    /\ entries = <<>>
    /\ pc = "fields"
    /\ rendered = ""
    /\ again = <<>>
    /\ mapOrders = <<DefaultOrder, DefaultOrder>>
    /\ err = FALSE

\* documents for DiffDocs, the nil pointer among them
InitInvalid ==
    /\ old \in DocumentRefs
    /\ new \in DocumentRefs
    /\ options \in DocMasks
    /\ InitCall

Init == InitDocs

\* mutant of CallDiffDocs: the call sorts the new document's resource list in place, one
\* resource per name, instead of sorting a slice of the names
CallDiffDocs_SortsInput ==
    /\ pc = "start"
    /\ ~DiffDocsFatal(old, new, options)
    /\ entries' = DiffDocs(old, new, options)
    /\ pc' = "done"
    /\ new' = [new EXCEPT !.Resources =
                  LET newMap == resourceMap(new.Resources)
                      sortedKeys == SortStrings(DOMAIN newMap)
                  IN [i \in 1..Len(sortedKeys) |-> newMap[sortedKeys[i]]]]
    /\ UNCHANGED <<old, options, rendered, again, mapOrders, fieldList, err>>

\* got := DiffDocs(old, new, options)
CallDiffDocs ==
    /\ pc = "start"
    /\ IF DiffDocsFatal(old, new, options)
       THEN /\ entries' = entries
            /\ pc' = "fatal"
       ELSE /\ entries' = DiffDocs(old, new, options)
            /\ pc' = "done"
    /\ UNCHANGED <<old, new, options, rendered, again, mapOrders, fieldList, err>>

\* diffs, err := getFieldDiffs(old, new, fieldList, checkDescriptions)
CallGetFieldDiffs ==
    /\ pc = "fields"
    /\ LET r == getFieldDiffs(old, new, fieldList, Has(options, DescriptionOption))
       IN /\ entries' = r.diffs
          /\ err' = r.err
    /\ pc' = "returned"
    /\ UNCHANGED <<old, new, options, rendered, again, mapOrders, fieldList>>

\* a second call on the same documents and mask
CallDiffDocsAgain ==
    /\ pc = "done"
    /\ again' = DiffDocs(old, new, options)
    /\ pc' = "again"
    /\ UNCHANGED <<old, new, options, entries, rendered, mapOrders, fieldList, err>>

\* fmt.Printf(renderDiff(got))
CallRenderDiff ==
    /\ pc = "done"
    /\ rendered' = renderDiff(entries)
    /\ pc' = "rendered"
    /\ UNCHANGED <<old, new, options, entries, again, mapOrders, fieldList, err>>

Next == CallDiffDocs

\* the call followed by the rendering of its result, as TestDiff does
NextRender == CallDiffDocs \/ CallRenderDiff

\* a comparator's call of getFieldDiffs, and the call of DiffDocs
NextErrors == CallGetFieldDiffs \/ CallDiffDocs

\* the call made twice
NextTwice == CallDiffDocs \/ CallDiffDocsAgain

Spec == Init /\ [][Next]_vars

SpecSchemas == InitSchemas /\ [][Next]_vars

SpecResources == InitResources /\ [][Next]_vars

SpecCollections == (InitSchemas \/ InitResources) /\ [][Next]_vars

SpecAll == (InitDocs \/ InitSchemas \/ InitResources) /\ [][Next]_vars

SpecErrors == (InitFields \/ InitInvalid) /\ [][NextErrors]_vars

SpecTwice == InitTwice /\ [][NextTwice]_vars

SpecRender == (InitDocs \/ InitSchemas \/ InitResources) /\ [][NextRender]_vars

(***************************************************************************)
(* Helpers of the properties.                                              *)
(***************************************************************************)
RECURSIVE AllEntries(_)
\* the entries of a diff tree at every depth
AllEntries(es) ==
    UNION {{es[i]} \cup AllEntries(es[i].Children) : i \in 1..Len(es)}

Done == pc = "done"

(***************************************************************************)
(* C1: a document compared against itself yields the empty sequence, for   *)
(* every option mask: DiffDocs(A, A, M) = <<>>, checked for the old and    *)
(* the new document of every explored call and for the call itself when    *)
(* both inputs are the same document.                                      *)
(***************************************************************************)
\* C1: DiffDocs(A, A, M) is the empty sequence for every explored document A and mask M
C1_Identity ==
    /\ pc = "start" => /\ DiffDocs(old, old, options) = <<>>
                       /\ DiffDocs(new, new, options) = <<>>
    /\ (Done /\ old = new) => entries = <<>>

\* a finished all-options self-comparison of a document with schemas and nested resources
C1_Witness ==
    /\ Done
    /\ old = new
    /\ options = AllOptions
    /\ DOMAIN old.Schemas # {}
    /\ \E i \in 1..Len(old.Resources) : old.Resources[i].Resources # <<>>
    /\ entries = <<>>

(***************************************************************************)
(* Helpers of the properties of the keyed collections.                     *)
(***************************************************************************)
Scalar(e) == e.ElementKind \in {StringFieldKind, BoolFieldKind}

\* the positions of the entries of the given kind and element id
EntriesFor(es, kind, id) ==
    {i \in 1..Len(es) : es[i].ElementKind = kind /\ es[i].ElementID = id}

OfKind(es, kind) == SelectSeq(es, LAMBDA e : e.ElementKind = kind)

\* the children of the entry of the given kind and id, none when there is no such entry
ChildrenFor(es, kind, id) ==
    IF EntriesFor(es, kind, id) = {} THEN <<>>
    ELSE es[CHOOSE i \in EntriesFor(es, kind, id) : TRUE].Children

DescriptionsOn == Has(options, DescriptionOption)

\* the schema entries and the top-level resource entries of the result
SchemaEntries == OfKind(entries, SchemaKind)
ResourceEntries == OfKind(entries, ResourceKind)

(***************************************************************************)
(* C2: a key present only in the new collection (schemas by key, resources *)
(* by name at every depth) gets an entry exactly when the comparison of    *)
(* the new element against the zero element yields a diff; the entry and   *)
(* every entry below it has ChangeType Add, and its scalar children carry  *)
(* an empty old value and the new element's value.                         *)
(***************************************************************************)
C2_SchemasOK ==
    \A k \in DOMAIN new.Schemas \ DOMAIN old.Schemas :
        LET idx == EntriesFor(SchemaEntries, SchemaKind, "Schemas." \o k)
        IN /\ Cardinality(idx) <= 1
           /\ (idx # {}) <=>
                 (compareSingleSchema(ZeroSchema, new.Schemas[k], DescriptionsOn) # <<>>)
           /\ \A i \in idx :
                 LET e == SchemaEntries[i]
                 IN /\ e.ChangeType = AddChange
                    /\ \A d \in AllEntries(e.Children) :
                          /\ d.ChangeType = AddChange
                          /\ Scalar(d)
                          /\ d.OldValue = ""
                          /\ d.NewValue = new.Schemas[k][d.ElementID]

RECURSIVE C2_ResourcesOK(_, _, _)
C2_ResourcesOK(oldList, newList, es) ==
    LET oldMap == resourceMap(oldList)
        newMap == resourceMap(newList)
    IN \A k \in DOMAIN newMap :
          LET id == "Resources." \o k
              idx == EntriesFor(es, ResourceKind, id)
              below == OfKind(ChildrenFor(es, ResourceKind, id), ResourceKind)
          IN IF k \in DOMAIN oldMap
             THEN C2_ResourcesOK(oldMap[k].Resources, newMap[k].Resources, below)
             ELSE /\ Cardinality(idx) <= 1
                  /\ (idx # {}) <=>
                        (compareSingleResource(ZeroResource, newMap[k], DescriptionsOn)
                            # <<>>)
                  /\ \A i \in idx :
                        /\ es[i].ChangeType = AddChange
                        /\ \A d \in AllEntries(es[i].Children) : d.ChangeType = AddChange
                        /\ \A j \in 1..Len(es[i].Children) :
                              LET d == es[i].Children[j]
                              IN Scalar(d) => /\ d.ElementID = "Name"
                                              /\ d.OldValue = ""
                                              /\ d.NewValue = newMap[k].Name
                  /\ C2_ResourcesOK(<<>>, newMap[k].Resources, below)

\* C2: a key of the new collection only has an entry iff the comparison against the
\* zero element finds a diff, and that entry and everything below it is an Add
C2_AddedKeys ==
    Done =>
       /\ Has(options, SchemaOption) => C2_SchemasOK
       /\ Has(options, ResourceOption) =>
             C2_ResourcesOK(old.Resources, new.Resources, ResourceEntries)

\* a resource of both documents in which a nested resource with a nested resource of
\* its own was added: Add entries two levels deep, with their Name children
C2_Witness ==
    /\ Done
    /\ \E i \in 1..Len(entries) :
          /\ entries[i].ElementKind = ResourceKind
          /\ entries[i].ChangeType = ModifyChange
          /\ \E j \in 1..Len(entries[i].Children) :
                LET e == entries[i].Children[j]
                IN /\ e.ElementKind = ResourceKind
                   /\ e.ChangeType = AddChange
                   /\ \E c \in 1..Len(e.Children) :
                         /\ e.Children[c].ElementKind = ResourceKind
                         /\ e.Children[c].ChangeType = AddChange
                         /\ e.Children[c].Children # <<>>
                         /\ \A d \in AllEntries(e.Children[c].Children) :
                               d.ChangeType = AddChange /\ d.OldValue = ""

(***************************************************************************)
(* C3: a key present only in the old collection (schemas, and resources at *)
(* every depth) gets exactly one entry: ChangeType Delete, the id derived  *)
(* from the key, empty old and new values and no children.  No Delete      *)
(* entry of a result has children.                                         *)
(***************************************************************************)
C3_SchemasOK ==
    \A k \in DOMAIN old.Schemas \ DOMAIN new.Schemas :
        LET idx == EntriesFor(SchemaEntries, SchemaKind, "Schemas." \o k)
        IN /\ Cardinality(idx) = 1
           /\ \A i \in idx :
                 SchemaEntries[i] =
                    DiffEntry(DeleteChange, SchemaKind, "Schemas." \o k, "", "", <<>>)

RECURSIVE C3_ResourcesOK(_, _, _)
C3_ResourcesOK(oldList, newList, es) ==
    LET oldMap == resourceMap(oldList)
        newMap == resourceMap(newList)
    IN \A k \in DOMAIN oldMap :
          LET id == "Resources." \o k
              idx == EntriesFor(es, ResourceKind, id)
              below == OfKind(ChildrenFor(es, ResourceKind, id), ResourceKind)
          IN IF k \in DOMAIN newMap
             THEN C3_ResourcesOK(oldMap[k].Resources, newMap[k].Resources, below)
             ELSE /\ Cardinality(idx) = 1
                  /\ \A i \in idx :
                        es[i] = DiffEntry(DeleteChange, ResourceKind, id, "", "", <<>>)

\* C3: a key of the old collection only has exactly one childless Delete entry, and
\* no Delete entry of a result has children
C3_DeletedKeys ==
    Done =>
       /\ Has(options, SchemaOption) => C3_SchemasOK
       /\ Has(options, ResourceOption) =>
             C3_ResourcesOK(old.Resources, new.Resources, ResourceEntries)
       /\ \A e \in AllEntries(entries) : e.ChangeType = DeleteChange => e.Children = <<>>

\* a nested resource of the old document only, with nested resources of its own,
\* reported by one childless Delete entry below its parent's Modify entry
C3_Witness ==
    /\ Done
    /\ \E i \in 1..Len(old.Resources), j \in 1..Len(new.Resources) :
          /\ old.Resources[i].Name = new.Resources[j].Name
          /\ new.Resources[j].Resources = <<>>
          /\ \E c \in 1..Len(old.Resources[i].Resources) :
                old.Resources[i].Resources[c].Resources # <<>>
    /\ \E i \in 1..Len(entries) :
          /\ entries[i].ChangeType = ModifyChange
          /\ \E j \in 1..Len(entries[i].Children) :
                /\ entries[i].Children[j].ChangeType = DeleteChange
                /\ entries[i].Children[j].ElementKind = ResourceKind
                /\ entries[i].Children[j].Children = <<>>

(***************************************************************************)
(* C4: a key present in both collections gets no entry when the comparison *)
(* of its two elements yields no diff, and otherwise exactly one entry of  *)
(* ChangeType Modify whose children are the diffs of that comparison, in   *)
(* the comparator's order.                                                 *)
(***************************************************************************)
C4_SchemasOK ==
    \A k \in DOMAIN old.Schemas \cap DOMAIN new.Schemas :
        LET id == "Schemas." \o k
            idx == EntriesFor(SchemaEntries, SchemaKind, id)
            diffs == compareSingleSchema(old.Schemas[k], new.Schemas[k], DescriptionsOn)
        IN IF diffs = <<>> THEN idx = {}
           ELSE /\ Cardinality(idx) = 1
                /\ \A i \in idx :
                      SchemaEntries[i] = DiffEntry(ModifyChange, SchemaKind, id, "", "", diffs)

RECURSIVE C4_ResourcesOK(_, _, _)
C4_ResourcesOK(oldList, newList, es) ==
    LET oldMap == resourceMap(oldList)
        newMap == resourceMap(newList)
    IN \A k \in DOMAIN oldMap \cap DOMAIN newMap :
          LET id == "Resources." \o k
              idx == EntriesFor(es, ResourceKind, id)
              below == OfKind(ChildrenFor(es, ResourceKind, id), ResourceKind)
              diffs == compareSingleResource(oldMap[k], newMap[k], DescriptionsOn)
          IN /\ IF diffs = <<>> THEN idx = {}
                ELSE /\ Cardinality(idx) = 1
                     /\ \A i \in idx :
                           es[i] = DiffEntry(ModifyChange, ResourceKind, id, "", "", diffs)
             /\ C4_ResourcesOK(oldMap[k].Resources, newMap[k].Resources, below)

\* C4: a key of both collections has no entry when its comparison finds nothing, else
\* one Modify entry whose children are the diffs of the comparison
C4_CommonKeys ==
    Done =>
       /\ Has(options, SchemaOption) => C4_SchemasOK
       /\ Has(options, ResourceOption) =>
             C4_ResourcesOK(old.Resources, new.Resources, ResourceEntries)

\* a resource of both documents whose nested resource of both documents changed: a
\* Modify entry below a Modify entry; and a second resource of both documents that
\* did not change and has no entry
C4_Witness ==
    /\ Done
    /\ \E i \in 1..Len(entries) :
          /\ entries[i].ElementKind = ResourceKind
          /\ entries[i].ChangeType = ModifyChange
          /\ \E j \in 1..Len(entries[i].Children) :
                /\ entries[i].Children[j].ElementKind = ResourceKind
                /\ entries[i].Children[j].ChangeType = ModifyChange
                /\ entries[i].Children[j].Children # <<>>
    /\ \E k \in DOMAIN resourceMap(old.Resources) \cap DOMAIN resourceMap(new.Resources) :
          EntriesFor(entries, ResourceKind, "Resources." \o k) = {}

(***************************************************************************)
(* C7: within one keyed collection (the schemas, each resource list at     *)
(* every depth) the entries stand in strictly ascending byte order of      *)
(* their keys, each key being a key of the old or the new collection: at   *)
(* most one entry per key, whatever the order of the input lists.          *)
(***************************************************************************)
\* es holds entries "<prefix><key>" for strictly ascending keys of the set U
Ascending(es, prefix, U) ==
    /\ \A i \in 1..Len(es) : \E k \in U : es[i].ElementID = prefix \o k
    /\ \A i \in 1..Len(es), j \in 1..Len(es) :
          i < j => \E ki \in U, kj \in U :
                      /\ es[i].ElementID = prefix \o ki
                      /\ es[j].ElementID = prefix \o kj
                      /\ StringLess(ki, kj)

RECURSIVE C7_ResourcesOK(_, _, _)
C7_ResourcesOK(oldList, newList, es) ==
    LET oldMap == resourceMap(oldList)
        newMap == resourceMap(newList)
        U == DOMAIN oldMap \cup DOMAIN newMap
    IN /\ Ascending(es, "Resources.", U)
       /\ \A k \in U :
             C7_ResourcesOK(
                IF k \in DOMAIN oldMap THEN oldMap[k].Resources ELSE <<>>,
                IF k \in DOMAIN newMap THEN newMap[k].Resources ELSE <<>>,
                OfKind(ChildrenFor(es, ResourceKind, "Resources." \o k), ResourceKind))

\* C7: the entries of every keyed collection stand in strictly ascending key order,
\* at most one per key
C7_SortedKeys ==
    Done =>
       /\ Ascending(SchemaEntries, "Schemas.", DOMAIN old.Schemas \cup DOMAIN new.Schemas)
       /\ C7_ResourcesOK(old.Resources, new.Resources, ResourceEntries)

\* three entries of one resource list, from input lists that are not in key order
C7_Witness ==
    /\ Done
    /\ Len(ResourceEntries) = 3
    /\ \E i \in 1..Len(new.Resources), j \in 1..Len(new.Resources) :
          i < j /\ StringLess(new.Resources[j].Name, new.Resources[i].Name)

(***************************************************************************)
(* C5: with include-schemas set, a schema of both documents whose          *)
(* descriptions differ has an entry with a Description child when          *)
(* include-descriptions is set and no Description child when it is         *)
(* cleared; the toggle changes nothing else.                               *)
(***************************************************************************)
HasDescriptionChild(es, k) ==
    \E i \in EntriesFor(es, SchemaKind, "Schemas." \o k) :
        \E j \in 1..Len(es[i].Children) :
            es[i].Children[j] =
                DiffEntry(ModifyChange, StringFieldKind, "Description",
                          old.Schemas[k].Description, new.Schemas[k].Description, <<>>)

RECURSIVE WithoutDescriptions(_)
\* the tree without its Description entries and without the entries they alone fill
WithoutDescriptions(es) ==
    LET kept == SelectSeq(es, LAMBDA e : ~(Scalar(e) /\ e.ElementID = "Description"))
        cut == [i \in 1..Len(kept) |->
                   [kept[i] EXCEPT !.Children = WithoutDescriptions(kept[i].Children)]]
    IN SelectSeq(cut, LAMBDA e : Scalar(e) \/ e.ChangeType = DeleteChange
                                   \/ e.Children # <<>>)

\* C5: the Description child of a schema entry appears iff include-descriptions is
\* set, and the toggle changes nothing else
C5_DescriptionGated ==
    (Done /\ Has(options, SchemaOption)) =>
       /\ \A k \in DOMAIN old.Schemas \cap DOMAIN new.Schemas :
             old.Schemas[k].Description # new.Schemas[k].Description =>
                (HasDescriptionChild(entries, k) <=> Has(options, DescriptionOption))
       /\ WithoutDescriptions(DiffDocs(old, new, Set(options, DescriptionOption)))
             = WithoutDescriptions(DiffDocs(old, new, Clear(options, DescriptionOption)))

(***************************************************************************)
(* C6: for a resource of both documents, a method of only one version, or  *)
(* of both with a differing name, id, path, http verb, description (when   *)
(* include-descriptions is set) or media-download flag, yields a           *)
(* Method-kind entry among the children of the resource's entry.           *)
(***************************************************************************)
MethodNames(ms) == {ms[i].Name : i \in 1..Len(ms)}

MethodsDiffer(om, nm) ==
    \/ MethodNames(om) # MethodNames(nm)
    \/ \E i \in 1..Len(om), j \in 1..Len(nm) :
          /\ om[i].Name = nm[j].Name
          /\ \E f \in {"Name", "ID", "Path", "HTTPMethod", "SupportsMediaDownload"}
                      \cup (IF DescriptionsOn THEN {"Description"} ELSE {}) :
                om[i][f] # nm[j][f]

\* C6: differing methods of a resource of both documents yield a Method-kind entry
\* below the entry of the resource
C6_MethodsReconciled ==
    (Done /\ Has(options, ResourceOption)) =>
       \A k \in DOMAIN resourceMap(old.Resources) \cap DOMAIN resourceMap(new.Resources) :
          MethodsDiffer(resourceMap(old.Resources)[k].Methods,
                        resourceMap(new.Resources)[k].Methods)
          => \E i \in EntriesFor(entries, ResourceKind, "Resources." \o k) :
                \E j \in 1..Len(entries[i].Children) :
                   entries[i].Children[j].ElementKind = MethodKind

(***************************************************************************)
(* Categories of the top-level entries.                                    *)
(***************************************************************************)
\* 1 identifiers, 2 versioning, 3 service metadata, 4 schemas, 5 resources
Category(e) ==
    CASE e.ElementKind = SchemaKind -> 4
      [] e.ElementKind = ResourceKind -> 5
      [] Scalar(e) /\ e.ElementID \in {"ID", "Name"} -> 1
      [] Scalar(e) /\ e.ElementID = "Revision" -> 2
      [] Scalar(e) /\ e.ElementID \in {"Title", "RootURL", "ServicePath", "BasePath",
                                       "DocumentationLink"} -> 3
      [] OTHER -> 0

OfCategory(es, c) == SelectSeq(es, LAMBDA e : Category(e) = c)

\* the flag (a power of two) is set in the mask
Bit(mask, flag) == (mask \div flag) % 2 = 1

\* what category c contributes for the mask: its comparison when its flag is set
CategoryResult(c, mask) ==
    CASE c = 1 -> compareIdentifiers(old, new)
      [] c = 2 -> IF Bit(mask, VersioningOption) THEN compareVersioning(old, new) ELSE <<>>
      [] c = 3 -> IF Bit(mask, ServiceOption) THEN compareServiceOptions(old, new)
                  ELSE <<>>
      [] c = 4 -> IF Bit(mask, SchemaOption)
                  THEN compareSchemas(old, new, Bit(mask, DescriptionOption))
                  ELSE <<>>
      [] c = 5 -> IF Bit(mask, ResourceOption)
                  THEN compareResources(old.Resources, new.Resources,
                                        Bit(mask, DescriptionOption))
                  ELSE <<>>

(***************************************************************************)
(* C8: the result is the concatenation of the enabled categories' results  *)
(* in the order identifiers, versioning, service metadata, schemas,        *)
(* resources: every top-level entry belongs to a category and no entry of  *)
(* a later category precedes an entry of an earlier one.                   *)
(***************************************************************************)
\* C8: the result is the concatenation of the enabled categories in the fixed order
C8_CategoryOrder ==
    Done =>
       /\ \A i \in 1..Len(entries) : Category(entries[i]) \in 1..5
       /\ \A i \in 1..Len(entries), j \in 1..Len(entries) :
             i < j => Category(entries[i]) <= Category(entries[j])
       /\ entries = CategoryResult(1, options) \o CategoryResult(2, options)
                       \o CategoryResult(3, options) \o CategoryResult(4, options)
                       \o CategoryResult(5, options)

\* a result with entries of all five categories
C8_Witness ==
    /\ Done
    /\ \A c \in 1..5 : OfCategory(entries, c) # <<>>

(***************************************************************************)
(* C9: the identifiers are compared for every mask; each of the flags      *)
(* include-versioning, include-service-metadata, include-schemas and       *)
(* include-resources gates its own category only: a category has entries   *)
(* exactly when its flag is set and its comparison finds a difference, and *)
(* its entries stay the same when the flag of another category is          *)
(* toggled; under the all-flags value every category is compared.          *)
(***************************************************************************)
CategoryFlag(c) ==
    CASE c = 2 -> VersioningOption
      [] c = 3 -> ServiceOption
      [] c = 4 -> SchemaOption
      [] c = 5 -> ResourceOption

Toggle(mask, flag) == IF Bit(mask, flag) THEN Clear(mask, flag) ELSE Set(mask, flag)

FieldEntries(fn) == SelectSeq(entries, LAMBDA e : Scalar(e) /\ e.ElementID = fn)

\* none when the values are equal, else the one Modify entry with both values
FieldCompared(fn) ==
    FieldEntries(fn) =
        IF old[fn] = new[fn] THEN <<>>
        ELSE <<DiffEntry(ModifyChange, StringFieldKind, fn, old[fn], new[fn], <<>>)>>

Composite(e) == e.ElementKind \in {SchemaKind, ResourceKind, MethodKind}

\* C11: at every depth a composite entry has empty old and new values and a scalar-field
\* entry has no children
C11_EntryShape ==
    Done => \A e \in AllEntries(entries) :
               /\ Composite(e) \/ Scalar(e)
               /\ Composite(e) => e.OldValue = "" /\ e.NewValue = ""
               /\ Scalar(e) => e.Children = <<>>

\* an added resource under a modified one, each with a scalar child that carries a value
C11_Witness ==
    /\ Done
    /\ \E i \in 1..Len(entries) :
          /\ entries[i].ElementKind = ResourceKind
          /\ entries[i].ChangeType = ModifyChange
          /\ \E j \in 1..Len(entries[i].Children) :
                LET c == entries[i].Children[j]
                IN /\ c.ElementKind = ResourceKind
                   /\ c.ChangeType = AddChange
                   /\ c.OldValue = "" /\ c.NewValue = ""
                   /\ \E k \in 1..Len(c.Children) :
                         /\ Scalar(c.Children[k])
                         /\ c.Children[k].NewValue # ""
                         /\ c.Children[k].Children = <<>>


(***************************************************************************)
(* C16: resources of one name in one list.  Only the last resource of a    *)
(* name takes part: the result is the result for the lists without the     *)
(* earlier resources of a repeated name, at every depth.  The witness is a *)
(* call whose result changes when a list with a repeated name is reversed. *)
(***************************************************************************)
RECURSIVE LastOccurrences(_)
\* the list without every resource that a later resource of the list shares its name
\* with, the nested lists treated alike
LastOccurrences(list) ==
    LET kept == SelectSeq([i \in 1..Len(list) |-> <<i, list[i]>>],
                          LAMBDA p : \A j \in (p[1] + 1)..Len(list) :
                                        list[j].Name # p[2].Name)
    IN [i \in 1..Len(kept) |->
          [kept[i][2] EXCEPT !.Resources = LastOccurrences(kept[i][2].Resources)]]

HasRepeatedName(list) ==
    \E i, j \in 1..Len(list) : i < j /\ list[i].Name = list[j].Name

Reverse(list) == [i \in 1..Len(list) |-> list[Len(list) + 1 - i]]

\* C16: the result is the one for the lists reduced to the last resource of every name
C16_LastOccurrenceOnly ==
    Done => entries = DiffDocs([old EXCEPT !.Resources = LastOccurrences(old.Resources)],
                               [new EXCEPT !.Resources = LastOccurrences(new.Resources)],
                               options)

\* the new list holds a name twice, the earlier resource differs from the old one and
\* the last does not: nothing is reported, and the reversed list gives another result
C16_Witness ==
    /\ Done
    /\ Has(options, ResourceOption)
    /\ HasRepeatedName(new.Resources)
    /\ LastOccurrences(new.Resources) = old.Resources
    /\ new.Resources # old.Resources
    /\ entries = <<>>
    /\ DiffDocs(old, [new EXCEPT !.Resources = Reverse(new.Resources)], options) # entries


(***************************************************************************)
(* C17: the element id of a Resource entry.  At every nesting depth the id *)
(* is "Resources." followed by a name of the lists compared at that depth, *)
(* the names of the enclosing resources taking no part, and the entry's    *)
(* children are the entries of the lists nested under that name.           *)
(***************************************************************************)
NestedUnder(list, name) ==
    IF name \in DOMAIN resourceMap(list) THEN resourceMap(list)[name].Resources ELSE <<>>

RECURSIVE C17_IdsOK(_, _, _)
C17_IdsOK(oldList, newList, es) ==
    \A i \in 1..Len(es) :
       es[i].ElementKind = ResourceKind =>
          \E k \in DOMAIN resourceMap(oldList) \cup DOMAIN resourceMap(newList) :
             /\ es[i].ElementID = "Resources." \o k
             /\ \A j \in 1..Len(es[i].Children) :
                   (es[i].Children[j].ElementID = "Name"
                    /\ es[i].ChangeType = AddChange)
                       => es[i].Children[j].NewValue = k
             /\ C17_IdsOK(NestedUnder(oldList, k), NestedUnder(newList, k),
                          es[i].Children)

\* C17: every Resource entry's id is "Resources." and the resource's own name, at every depth
C17_ResourceIds ==
    Done => C17_IdsOK(old.Resources, new.Resources, entries)

\* two resources of one name nested under different resources: their entries have
\* different parents and one element id
C17_Witness ==
    /\ Done
    /\ \E i, j \in 1..Len(entries) :
          /\ i # j
          /\ entries[i].ElementKind = ResourceKind
          /\ entries[j].ElementKind = ResourceKind
          /\ entries[i].ElementID # entries[j].ElementID
          /\ \E m \in 1..Len(entries[i].Children), n \in 1..Len(entries[j].Children) :
                /\ entries[i].Children[m].ElementKind = ResourceKind
                /\ entries[j].Children[n].ElementKind = ResourceKind
                /\ entries[i].Children[m].ElementID = entries[j].Children[n].ElementID
                /\ entries[i].Children[m].ElementID = "Resources.a"


(***************************************************************************)
(* C13: the rendered text.  The entries are taken depth-first, a parent    *)
(* before its children, in the order of the tree; each gives one line      *)
(* ended by a newline: two spaces per level of depth, the change marker,   *)
(* a space, the kind marker, the element id and the value suffix.  The     *)
(* text is the lines one after the other, and empty for no entries.        *)
(***************************************************************************)
RECURSIVE PreOrder(_, _)
\* <<depth, entry>> for every entry of the tree, a parent before its children
PreOrder(es, depth) ==
    IF es = <<>> THEN <<>>
    ELSE <<<<depth, Head(es)>>>> \o PreOrder(Head(es).Children, depth + 1)
                                \o PreOrder(Tail(es), depth)

Indent(depth) == [i \in 1..depth |-> "  "]

ChangeMarker(e) ==
    CASE e.ChangeType = AddChange -> "+"
      [] e.ChangeType = ModifyChange -> "M"
      [] e.ChangeType = DeleteChange -> "-"

KindMarker(e) ==
    CASE e.ElementKind = SchemaKind -> "<Schema> "
      [] e.ElementKind = ResourceKind -> "<Resource> "
      [] e.ElementKind = MethodKind -> "<Method> "
      [] Scalar(e) -> "."

ValueSuffix(e) ==
    IF Scalar(e) /\ e.ChangeType = ModifyChange
    THEN <<" [ \"", e.OldValue, "\" ==> \"", e.NewValue, "\" ]">>
    ELSE IF Scalar(e) /\ e.ChangeType = AddChange /\ e.NewValue # ""
    THEN <<" [ \"", e.NewValue, "\" ]">>
    ELSE <<>>

\* the pieces of the line of an entry at the given depth
LinePieces(depth, e) ==
    Indent(depth) \o <<ChangeMarker(e), " ", KindMarker(e), e.ElementID>>
                  \o ValueSuffix(e) \o <<"\n">>

RECURSIVE Joined(_)
\* the pieces written one after the other
Joined(pieces) == IF pieces = <<>> THEN "" ELSE Head(pieces) \o Joined(Tail(pieces))

RECURSIVE Flattened(_)
Flattened(seqs) == IF seqs = <<>> THEN <<>> ELSE Head(seqs) \o Flattened(Tail(seqs))

ExpectedText(es) ==
    LET order == PreOrder(es, 0)
    IN Joined(Flattened([i \in 1..Len(order) |-> LinePieces(order[i][1], order[i][2])]))

\* C13: the text is one line per entry in pre-order, indented by depth, with the markers,
\* the id and the value suffix of scalar Modify and Add entries; empty for no entries
C13_RenderedText ==
    pc = "rendered" =>
        /\ rendered = ExpectedText(entries)
        /\ entries = <<>> => rendered = ""
        /\ \A e \in AllEntries(entries) : Composite(e) => ValueSuffix(e) = <<>>

\* a rendered result with a modified scalar at the top, an added schema with its fields,
\* a deleted resource and, two levels down, the name of a resource nested in an added one
C13_Witness ==
    /\ pc = "rendered"
    /\ rendered # ""
    /\ \E i \in 1..Len(entries) :
          Scalar(entries[i]) /\ entries[i].ChangeType = ModifyChange
    /\ \E i \in 1..Len(entries) :
          /\ entries[i].ElementKind = SchemaKind
          /\ entries[i].ChangeType = AddChange
          /\ entries[i].Children # <<>>
    /\ \E i \in 1..Len(entries) :
          /\ entries[i].ElementKind = ResourceKind
          /\ entries[i].ChangeType = DeleteChange
    /\ \E i \in 1..Len(entries) :
          /\ entries[i].ElementKind = ResourceKind
          /\ \E j \in 1..Len(entries[i].Children) :
                LET c == entries[i].Children[j]
                IN /\ c.ElementKind = ResourceKind
                   /\ \E k \in 1..Len(c.Children) :
                         /\ Scalar(c.Children[k])
                         /\ c.Children[k].ChangeType = AddChange
                         /\ c.Children[k].NewValue # ""


(***************************************************************************)
(* C14: determinism.  The second call on the same documents and mask gets  *)
(* the keys of every map in another order than the first and returns the   *)
(* same tree.                                                              *)
(***************************************************************************)
\* C14: two calls on the same inputs return equal trees, whatever the orders of the maps
C14_Deterministic ==
    pc = "again" => again = entries

\* two calls that got the keys in different orders and returned one tree of three
\* entries or more
C14_Witness ==
    /\ pc = "again"
    /\ mapOrders[1] # mapOrders[2]
    /\ rangeKeys(DOMAIN old.Schemas \cup DOMAIN new.Schemas)
          # sortStrings(rangeKeys(DOMAIN old.Schemas \cup DOMAIN new.Schemas))
    /\ Len(entries) >= 3
    /\ again = entries


(***************************************************************************)
(* C12: all or nothing.  getFieldDiffs returns an error exactly when an    *)
(* object is the nil pointer, the objects are of different types, or a     *)
(* name of the list is no field of them or a field that is neither a       *)
(* string nor a boolean, and then it returns no entry, whatever the fields *)
(* before the failing one gave.  DiffDocs on a nil document ends in the    *)
(* comparator's log.Fatalf and returns nothing; on two documents it        *)
(* returns.                                                                *)
(***************************************************************************)
InvalidInput(o, n, names) ==
    \/ o = NilRef
    \/ n = NilRef
    \/ DOMAIN o # DOMAIN n
    \/ \E i \in 1..Len(names) :
          \/ names[i] \notin DOMAIN o
          \/ FieldKind(names[i]) \notin {"string", "bool"}

\* C12: invalid inputs give an error and no entries from getFieldDiffs and a fatal end
\* of DiffDocs, never a part of a diff
C12_AllOrNothing ==
    /\ pc = "returned" => /\ err <=> InvalidInput(old, new, fieldList)
                          /\ err => entries = <<>>
    /\ pc \in {"done", "fatal"} =>
          /\ pc = "fatal" <=> (old = NilRef \/ new = NilRef)
          /\ pc = "fatal" => entries = <<>>

\* getFieldDiffs has returned the error for a non-scalar field behind a field in which
\* the two documents differ, and no entry
C12_Witness ==
    /\ pc = "returned"
    /\ err
    /\ entries = <<>>
    /\ old # NilRef /\ new # NilRef
    /\ DOMAIN old = DOMAIN new
    /\ Len(fieldList) >= 2
    /\ fieldList[1] \in DOMAIN old
    /\ FieldKind(fieldList[1]) = "string"
    /\ old[fieldList[1]] # new[fieldList[1]]
    /\ \E i \in 2..Len(fieldList) :
          fieldList[i] \in DOMAIN old /\ FieldKind(fieldList[i]) = "other"


====
